---------------------------- MODULE Spec2Model ----------------------------
(***************************************************************************)
(* A model of operon-finder.py: parse_line, blocks_by_query, build_operons *)
(* and the pipeline of main.                                               *)
(*                                                                         *)
(* Text is modelled as sequences of one-character strings, so that         *)
(* splitting on "|", int(), str() and ",".join() are computed and not      *)
(* assumed.  A line is modelled by the list line.strip().split() of its    *)
(* whitespace-separated fields (a blank line is the empty list).           *)
(***************************************************************************)
EXTENDS Integers, Sequences, FiniteSets, TLC

VARIABLES
    args,         \* the parsed command line: out_named, max_gap, require_same_strand
    pc,           \* position of main / of the generator blocks_by_query
    err,          \* the exception that ended the run, "none" while there is none
    out,          \* the output sink: "unopened", "open" or "closed"
    out_lines,    \* what has been written to the sink, in order
    fh,           \* the input file object: "unopened", "open" or "closed"
    nread,        \* number of lines the generator has pulled from fh
    line,         \* blocks_by_query: the loop variable (fields of the line)
    current_key,  \* blocks_by_query: key of the block being accumulated
    current,      \* blocks_by_query: rows of the block being accumulated
    last,         \* TRUE when the generator yielded from its final `if current`
    yielded,      \* every (key, rows) pair the generator has yielded, in order
    parsed,       \* every row parse_line has returned, in line order
    q_full,       \* main: key of the block in hand
    rows,         \* main / build_operons: rows of the block in hand
    operons,      \* main: result of build_operons for the block in hand
    built         \* TRUE once operons holds build_operons(rows)

vars == <<args, pc, err, out, out_lines, fh, nread, line, current_key, current,
          last, yielded, parsed, q_full, rows, operons, built>>

---------------------------------------------------------------------------
(* Bounds of the model *)

\* longest input file, in lines
MaxLines == 4
\* largest block handed directly to build_operons
MaxRows == 3
\* largest --max-gap
MaxGap == 1

---------------------------------------------------------------------------
(* Text *)

\* the characters used, in code point order (Python compares str by code point)
Ascii == <<"+", "-", "0", "1", "2", "3", "4", "5", "6", "7", "8", "9",
           "G", "N", "Q", "c", "e", "x", "z", "|">>

Digits == <<"0", "1", "2", "3", "4", "5", "6", "7", "8", "9">>

IsDigit(c) == \E i \in 1..10 : Digits[i] = c

DigitVal(c) == (CHOOSE i \in 1..10 : Digits[i] = c) - 1

CharRank(c) == CHOOSE i \in 1..Len(Ascii) : Ascii[i] = c

\* a < b for str
RECURSIVE StrLess(_, _)
StrLess(a, b) ==
    IF b = <<>> THEN FALSE
    ELSE IF a = <<>> THEN TRUE
    ELSE IF Head(a) # Head(b) THEN CharRank(Head(a)) < CharRank(Head(b))
    ELSE StrLess(Tail(a), Tail(b))

\* int(t) succeeds: an optional sign and then one or more digits
IsInt(t) ==
    LET body == IF t # <<>> /\ Head(t) \in {"+", "-"} THEN Tail(t) ELSE t
    IN  body # <<>> /\ \A i \in 1..Len(body) : IsDigit(body[i])

RECURSIVE DigitsVal(_)
DigitsVal(t) ==
    IF t = <<>> THEN 0
    ELSE 10 * DigitsVal(SubSeq(t, 1, Len(t) - 1)) + DigitVal(t[Len(t)])

\* int(t)
ToInt(t) ==
    IF Head(t) = "-" THEN 0 - DigitsVal(Tail(t))
    ELSE IF Head(t) = "+" THEN DigitsVal(Tail(t))
    ELSE DigitsVal(t)

RECURSIVE NatStr(_)
NatStr(n) ==
    IF n < 10 THEN <<Digits[n + 1]>>
    ELSE NatStr(n \div 10) \o <<Digits[(n % 10) + 1]>>

\* str(n)
Str(n) == IF n < 0 THEN <<"-">> \o NatStr(0 - n) ELSE NatStr(n)

\* index of the first sep in t, 0 when there is none
FirstIndex(t, sep) ==
    IF \E i \in 1..Len(t) : t[i] = sep
    THEN CHOOSE i \in 1..Len(t) : t[i] = sep /\ \A j \in 1..(i - 1) : t[j] # sep
    ELSE 0

\* t.split(sep)[0]
SplitHead(t, sep) ==
    LET i == FirstIndex(t, sep)
    IN  IF i = 0 THEN t ELSE SubSeq(t, 1, i - 1)

\* t.split(sep, 1)[1] if sep in t else ""
SplitRest(t, sep) ==
    LET i == FirstIndex(t, sep)
    IN  IF i = 0 THEN <<>> ELSE SubSeq(t, i + 1, Len(t))

\* sep.join(ts)
RECURSIVE Join(_, _)
Join(sep, ts) ==
    IF ts = <<>> THEN <<>>
    ELSE IF Len(ts) = 1 THEN ts[1]
    ELSE ts[1] \o <<sep>> \o Join(sep, Tail(ts))

---------------------------------------------------------------------------
(* parse_line *)

\* the value None
None == [none |-> TRUE]

\* int() raises ValueError on column 8 or 9
ParseRaises(parts) ==
    Len(parts) >= 12 /\ (~IsInt(parts[8]) \/ ~IsInt(parts[9]))

\* the row dict parse_line returns, or None; defined when ~ParseRaises(parts)
parse_line(parts) ==
    IF Len(parts) < 12 THEN None
    ELSE LET a == ToInt(parts[8])
             b == ToInt(parts[9])
         IN  [q_full    |-> parts[1],
              q_id      |-> SplitHead(parts[1], "|"),
              q_species |-> SplitRest(parts[1], "|"),
              strand    |-> parts[4],
              start     |-> IF a > b THEN b ELSE a,
              stop      |-> IF a > b THEN a ELSE b,
              prot_id   |-> parts[10],
              contig    |-> parts[11],
              assembly  |-> parts[12]]

---------------------------------------------------------------------------
(* build_operons *)

\* key(a) < key(b) for the sort key (contig, start, stop)
KeyLess(a, b) ==
    \/ StrLess(a.contig, b.contig)
    \/ a.contig = b.contig /\ a.start < b.start
    \/ a.contig = b.contig /\ a.start = b.start /\ a.stop < b.stop

\* r placed into the sorted list s behind every element whose key is not larger
RECURSIVE InsertSorted(_, _)
InsertSorted(s, r) ==
    IF s = <<>> THEN <<r>>
    ELSE IF KeyLess(r, Head(s)) THEN <<r>> \o s
    ELSE <<Head(s)>> \o InsertSorted(Tail(s), r)

\* sorted(rows, key=...): a stable sort
RECURSIVE Sorted(_)
Sorted(rs) ==
    IF rs = <<>> THEN <<>>
    ELSE InsertSorted(Sorted(SubSeq(rs, 1, Len(rs) - 1)), rs[Len(rs)])

Chains_LooseGap(prev, r, max_gap, require_same_strand) ==
    /\ r.start - prev.stop <= max_gap + 1
    /\ (require_same_strand => r.strand = prev.strand)

Chains_StrictGap(prev, r, max_gap, require_same_strand) ==
    /\ r.start - prev.stop < max_gap
    /\ (require_same_strand => r.strand = prev.strand)

\* r is appended to the cluster that ends in prev
Chains(prev, r, max_gap, require_same_strand) ==
    LET intergenic == r.start - prev.stop
        same_strand_ok == IF require_same_strand THEN r.strand = prev.strand
                          ELSE TRUE
    IN  intergenic <= max_gap /\ same_strand_ok

\* the loop over rows_sorted from position i on: st = [operons, current]
RECURSIVE OperonWalk(_, _, _, _, _)
OperonWalk(rs, i, st, max_gap, require_same_strand) ==
    IF i > Len(rs) THEN st
    ELSE LET r == rs[i]
             cur == st.current
             prev == cur[Len(cur)]
             nxt == IF cur = <<>>
                      THEN [operons |-> st.operons, current |-> <<r>>]
                    ELSE IF r.contig # prev.contig
                      THEN [operons |-> Append(st.operons, cur), current |-> <<r>>]
                    ELSE IF Chains(prev, r, max_gap, require_same_strand)
                      THEN [operons |-> st.operons, current |-> Append(cur, r)]
                    ELSE [operons |-> Append(st.operons, cur), current |-> <<r>>]
         IN  OperonWalk(rs, i + 1, nxt, max_gap, require_same_strand)

build_operons_NoFinalAppend(rs, max_gap, require_same_strand) ==
    OperonWalk(Sorted(rs), 1, [operons |-> <<>>, current |-> <<>>],
               max_gap, require_same_strand).operons

build_operons(rs, max_gap, require_same_strand) ==
    LET st == OperonWalk(Sorted(rs), 1, [operons |-> <<>>, current |-> <<>>],
                         max_gap, require_same_strand)
    IN  IF st.current # <<>> THEN Append(st.operons, st.current) ELSE st.operons

---------------------------------------------------------------------------
(* main: selecting the query's operons and formatting the records *)

\* the header line
Header ==
    [kind |-> "header",
     columns |-> <<"query_full", "query_id", "query_species", "assembly", "contig",
                   "operon_start", "operon_end", "operon_size",
                   "members_protein_ids", "members_coords", "query_in_operon">>]

\* {r["prot_id"] for r in op}
ProtIds(op) == {op[i].prot_id : i \in 1..Len(op)}

\* min(r["start"] for r in members)
RECURSIVE MinStart(_)
MinStart(members) ==
    IF Len(members) = 1 THEN members[1].start
    ELSE LET m == MinStart(Tail(members))
         IN  IF members[1].start <= m THEN members[1].start ELSE m

\* max(r["stop"] for r in members)
RECURSIVE MaxStop(_)
MaxStop(members) ==
    IF Len(members) = 1 THEN members[1].stop
    ELSE LET m == MaxStop(Tail(members))
         IN  IF members[1].stop >= m THEN members[1].stop ELSE m

\* f"{r['prot_id']}:{r['start']}-{r['stop']}"
CoordText(r) == r.prot_id \o <<":">> \o Str(r.start) \o <<"-">> \o Str(r.stop)

FormatRecord_LastStop(key, block, members) ==
    [kind                |-> "data",
     query_full          |-> key,
     query_id            |-> block[1].q_id,
     query_species       |-> block[1].q_species,
     assembly            |-> block[1].assembly,
     contig              |-> members[1].contig,
     operon_start        |-> Str(members[1].start),
     operon_end          |-> Str(members[Len(members)].stop),
     operon_size         |-> Str(Len(members)),
     members_protein_ids |-> Join(",", [i \in 1..Len(members) |-> members[i].prot_id]),
     members_coords      |-> Join(",", [i \in 1..Len(members) |-> CoordText(members[i])]),
     query_in_operon     |-> "YES"]

\* the line written for one operon of the block
FormatRecord(key, block, members) ==
    [kind                |-> "data",
     query_full          |-> key,
     query_id            |-> block[1].q_id,
     query_species       |-> block[1].q_species,
     assembly            |-> block[1].assembly,
     contig              |-> members[1].contig,
     operon_start        |-> Str(MinStart(members)),
     operon_end          |-> Str(MaxStop(members)),
     operon_size         |-> Str(Len(members)),
     members_protein_ids |-> Join(",", [i \in 1..Len(members) |-> members[i].prot_id]),
     members_coords      |-> Join(",", [i \in 1..Len(members) |-> CoordText(members[i])]),
     query_in_operon     |-> "YES"]

ReportedOperons_AnyWithQuery(ops, query_id) ==
    LET HasQuery(op) == query_id \in ProtIds(op)
    IN  SelectSeq(ops, HasQuery)

\* the operons of the block for which main writes a line, in order
ReportedOperons(ops, query_id) ==
    LET HasQuery(op) == query_id \in ProtIds(op)
        query_operons == SelectSeq(ops, HasQuery)
        HasOther(op) == \E i \in 1..Len(op) : op[i].prot_id # query_id
    IN  SelectSeq(query_operons, HasOther)

\* the lines main writes for one block
BlockRecords(key, block, ops) ==
    LET rep == ReportedOperons(ops, block[1].q_id)
    IN  [i \in 1..Len(rep) |-> FormatRecord(key, block, rep[i])]

---------------------------------------------------------------------------
(* Inputs *)

X == <<"x">>

\* a line of 12 fields
MkLine(key, strand, a, b, prot, contig) ==
    <<key, X, X, <<strand>>, X, X, X, a, b, prot, contig, <<"G">> >>

KeyQE == <<"Q", "|", "e">>
KeyQ  == <<"Q">>

BlankLine == <<>>
ShortLine == <<KeyQE, X, X>>
BadIntLine == MkLine(KeyQE, "+", <<"1">>, <<"z">>, <<"N">>, <<"c", "1">>)

\* well-formed lines: self rows and neighbours on two contigs, one with its
\* coordinates reversed, and one of a second query key with the same query id
RowLines ==
    { MkLine(KeyQE, "+", <<"1">>, <<"2">>, <<"Q">>, <<"c", "1">>),
      MkLine(KeyQE, "+", <<"3">>, <<"3">>, <<"N">>, <<"c", "1">>),
      MkLine(KeyQE, "-", <<"1", "2">>, <<"1">>, <<"N">>, <<"c", "1">>),
      MkLine(KeyQE, "+", <<"1">>, <<"2">>, <<"Q">>, <<"c", "2">>),
      MkLine(KeyQE, "-", <<"3">>, <<"3">>, <<"N">>, <<"c", "2">>),
      MkLine(KeyQ,  "+", <<"1">>, <<"2">>, <<"N">>, <<"c", "1">>) }

\* the lines an input file is made of
InputLines == {BlankLine, ShortLine, BadIntLine} \cup RowLines

\* the rows handed directly to build_operons (start <= stop, as parse_line leaves them)
BuildRows ==
    { [q_full |-> KeyQE, q_id |-> <<"Q">>, q_species |-> <<"e">>,
       strand |-> <<s>>, start |-> c[1], stop |-> c[2],
       prot_id |-> <<"N">>, contig |-> g, assembly |-> <<"G">>] :
      s \in {"+", "-"}, c \in {<<1, 2>>, <<1, 4>>, <<3, 3>>, <<5, 6>>},
      g \in {<<"c">>, <<"c", "1">>} }

Args == [out_named : BOOLEAN, max_gap : 0..MaxGap, require_same_strand : BOOLEAN]

---------------------------------------------------------------------------
(* The run of main *)

\* current_key = None
NoKey == <<>>

Init ==
    /\ args \in Args
    /\ pc = "start"
    /\ err = "none"
    /\ out = "unopened"
    /\ out_lines = <<>>
    /\ fh = "unopened"
    /\ nread = 0
    /\ line = <<>>
    /\ current_key = NoKey
    /\ current = <<>>
    /\ last = FALSE
    /\ yielded = <<>>
    /\ parsed = <<>>
    /\ q_full = NoKey
    /\ rows = <<>>
    /\ operons = <<>>
    /\ built = FALSE

\* an exception leaves main: the with block, once entered, closes fh on the way
Raise(e) ==
    /\ pc' = "error"
    /\ err' = e
    /\ fh' = IF fh = "open" THEN "closed" ELSE fh

\* out = sys.stdout if args.out == "-" else open(args.out, "w")
OpenOut ==
    /\ pc = "start"
    /\ \E ok \in BOOLEAN :
          IF ~args.out_named \/ ok
          THEN /\ out' = "open"
               /\ pc' = "header"
               /\ UNCHANGED <<err, fh>>
          ELSE /\ Raise("OSError: out")
               /\ UNCHANGED out
    /\ UNCHANGED <<args, out_lines, nread, line, current_key, current, last,
                   yielded, parsed, q_full, rows, operons, built>>

\* out.write(header)
WriteHeader ==
    /\ pc = "header"
    /\ \E ok \in BOOLEAN :
          IF ok
          THEN /\ out_lines' = Append(out_lines, Header)
               /\ pc' = "open_in"
               /\ UNCHANGED <<err, fh>>
          ELSE /\ Raise("OSError: write")
               /\ UNCHANGED out_lines
    /\ UNCHANGED <<args, out, nread, line, current_key, current, last,
                   yielded, parsed, q_full, rows, operons, built>>

\* with open(args.infile) as fh
OpenIn ==
    /\ pc = "open_in"
    /\ \E ok \in BOOLEAN :
          IF ok
          THEN /\ fh' = "open"
               /\ pc' = "gen"
               /\ UNCHANGED err
          ELSE Raise("OSError: infile")
    /\ UNCHANGED <<args, out, out_lines, nread, line, current_key, current, last,
                   yielded, parsed, q_full, rows, operons, built>>

\* blocks_by_query: one iteration of `for line in lines`, up to its yield
GenNext ==
    /\ pc = "gen"
    /\ nread < MaxLines
    /\ \E l \in InputLines :
          /\ nread' = nread + 1
          /\ line' = l
          /\ IF l = <<>> \/ (~ParseRaises(l) /\ parse_line(l) = None)
             THEN UNCHANGED <<pc, err, fh, current_key, current, last, yielded,
                              parsed, q_full, rows>>
             ELSE IF ParseRaises(l)
             THEN /\ Raise("ValueError")
                  /\ UNCHANGED <<current_key, current, last, yielded, parsed,
                                 q_full, rows>>
             ELSE LET row == parse_line(l)
                      key == row.q_full
                      ck  == IF current_key = NoKey THEN key ELSE current_key
                  IN  /\ parsed' = Append(parsed, row)
                      /\ current_key' = ck
                      /\ IF key # ck
                         THEN /\ yielded' = Append(yielded, <<ck, current>>)
                              /\ q_full' = ck
                              /\ rows' = current
                              /\ last' = FALSE
                              /\ pc' = "yielded"
                              /\ UNCHANGED current
                         ELSE /\ current' = Append(current, row)
                              /\ UNCHANGED <<pc, last, yielded, q_full, rows>>
                      /\ UNCHANGED <<err, fh>>
    /\ UNCHANGED <<args, out, out_lines, operons, built>>

\* reading the next line of fh fails
ReadError ==
    /\ pc = "gen"
    /\ Raise("OSError: read")
    /\ UNCHANGED <<args, out, out_lines, nread, line, current_key, current, last,
                   yielded, parsed, q_full, rows, operons, built>>

\* blocks_by_query: the input is exhausted
GenEnd ==
    /\ pc = "gen"
    /\ IF current # <<>>
       THEN /\ yielded' = Append(yielded, <<current_key, current>>)
            /\ q_full' = current_key
            /\ rows' = current
            /\ last' = TRUE
            /\ pc' = "yielded"
       ELSE /\ pc' = "exhausted"
            /\ UNCHANGED <<yielded, q_full, rows, last>>
    /\ UNCHANGED <<args, err, out, out_lines, fh, nread, line, current_key,
                   current, parsed, operons, built>>

\* main: the body of the loop for the block in hand; a write may fail
ProcessBlock ==
    /\ pc = "yielded"
    /\ IF rows = <<>>
       THEN /\ pc' = IF last THEN "exhausted" ELSE "resume"
            /\ UNCHANGED <<err, fh, out_lines, operons, built>>
       ELSE LET ops  == build_operons(rows, args.max_gap, args.require_same_strand)
                recs == BlockRecords(q_full, rows, ops)
            IN  /\ operons' = ops
                /\ built' = TRUE
                /\ \E k \in 0..Len(recs) :
                      /\ out_lines' = out_lines \o SubSeq(recs, 1, k)
                      /\ IF k = Len(recs)
                         THEN /\ pc' = IF last THEN "exhausted" ELSE "resume"
                              /\ UNCHANGED <<err, fh>>
                         ELSE Raise("OSError: write")
    /\ UNCHANGED <<args, out, nread, line, current_key, current, last, yielded,
                   parsed, q_full, rows>>

\* blocks_by_query: after its yield, the row in hand opens the next block
GenResume ==
    /\ pc = "resume"
    /\ LET row == parse_line(line)
       IN  /\ current_key' = row.q_full
           /\ current' = <<row>>
    /\ pc' = "gen"
    /\ UNCHANGED <<args, err, out, out_lines, fh, nread, line, last, yielded,
                   parsed, q_full, rows, operons, built>>

\* the with block ends; if out is not sys.stdout: out.close()
Finish ==
    /\ pc = "exhausted"
    /\ fh' = "closed"
    /\ out' = IF args.out_named THEN "closed" ELSE out
    /\ pc' = "done"
    /\ UNCHANGED <<args, err, out_lines, nread, line, current_key, current, last,
                   yielded, parsed, q_full, rows, operons, built>>

Next ==
    \/ OpenOut
    \/ WriteHeader
    \/ OpenIn
    \/ GenNext
    \/ ReadError
    \/ GenEnd
    \/ ProcessBlock
    \/ GenResume
    \/ Finish

Spec == Init /\ [][Next]_vars

---------------------------------------------------------------------------
(* build_operons on its own: any block of rows, any arguments *)

BuildInit ==
    /\ args \in {a \in Args : ~a.out_named}
    /\ pc = "build"
    /\ err = "none"
    /\ out = "unopened"
    /\ out_lines = <<>>
    /\ fh = "unopened"
    /\ nread = 0
    /\ line = <<>>
    /\ current_key = NoKey
    /\ current = <<>>
    /\ last = FALSE
    /\ yielded = <<>>
    /\ parsed = <<>>
    /\ q_full = NoKey
    /\ rows = <<>>
    /\ operons = <<>>
    /\ built = FALSE

\* the caller adds a row to the block
BuildAddRow ==
    /\ pc = "build"
    /\ ~built
    /\ Len(rows) < MaxRows
    /\ \E r \in BuildRows : rows' = Append(rows, r)
    /\ UNCHANGED <<args, pc, err, out, out_lines, fh, nread, line, current_key,
                   current, last, yielded, parsed, q_full, operons, built>>

\* operons = build_operons(rows, max_gap, require_same_strand)
BuildCall ==
    /\ pc = "build"
    /\ ~built
    /\ operons' = build_operons(rows, args.max_gap, args.require_same_strand)
    /\ built' = TRUE
    /\ UNCHANGED <<args, pc, err, out, out_lines, fh, nread, line, current_key,
                   current, last, yielded, parsed, q_full, rows>>

BuildNext == BuildAddRow \/ BuildCall

BuildSpec == BuildInit /\ [][BuildNext]_vars

---------------------------------------------------------------------------
(* Vocabulary of the properties *)

RECURSIVE Flatten(_)
Flatten(ss) == IF ss = <<>> THEN <<>> ELSE Head(ss) \o Flatten(Tail(ss))

Occurrences(s, x) == Cardinality({i \in 1..Len(s) : s[i] = x})

IsPermutation(s, t) ==
    /\ Len(s) = Len(t)
    /\ \A i \in 1..Len(s) : Occurrences(s, s[i]) = Occurrences(t, s[i])

\* t.split(sep)
RECURSIVE SplitAll(_, _)
SplitAll(t, sep) ==
    IF FirstIndex(t, sep) = 0 THEN <<t>>
    ELSE <<SplitHead(t, sep)>> \o SplitAll(SplitRest(t, sep), sep)

\* b may follow a in one cluster
MayFollow(a, b) ==
    /\ b.start - a.stop <= args.max_gap
    /\ (args.require_same_strand => a.strand = b.strand)

\* the maximal runs of equal q_full of a row sequence, as (key, rows) pairs
RECURSIVE Runs(_)
Runs(rs) ==
    IF rs = <<>> THEN <<>>
    ELSE LET before == Runs(SubSeq(rs, 1, Len(rs) - 1))
             r == rs[Len(rs)]
             n == Len(before)
         IN  IF n > 0 /\ before[n][1] = r.q_full
             THEN [before EXCEPT ![n] = <<r.q_full, Append(before[n][2], r)>>]
             ELSE Append(before, <<r.q_full, <<r>> >>)

YieldedRows == Flatten([i \in 1..Len(yielded) |-> yielded[i][2]])

\* blocks_by_query is over: it returned, or parse_line raised inside it
GeneratorOver == pc \in {"exhausted", "done"} \/ err = "ValueError"

\* a line that is not blank and is not a well-formed row
Malformed(l) ==
    /\ l # <<>>
    /\ (Len(l) < 12 \/ ~IsInt(l[8]) \/ ~IsInt(l[9]))

\* a cluster with the query and with another protein
Qualifies(op, query_id) ==
    /\ \E i \in 1..Len(op) : op[i].prot_id = query_id
    /\ \E i \in 1..Len(op) : op[i].prot_id # query_id

QualifyingIndexes(ops, query_id) ==
    {k \in 1..Len(ops) : Qualifies(ops[k], query_id)}

\* the j-th cluster, in cluster order, among those with an index in Q
NthOf(Q, j) == CHOOSE k \in Q : Cardinality({m \in Q : m <= k}) = j

\* the record names exactly the members of op, in cluster order
NamesMembers(rec, op) ==
    /\ rec.kind = "data"
    /\ rec.contig = op[1].contig
    /\ SplitAll(rec.members_protein_ids, ",") = [i \in 1..Len(op) |-> op[i].prot_id]

\* one item of members_coords read back: id:start-stop
CoordItemIs(item, r) ==
    LET span == SplitRest(item, ":")
    IN  /\ SplitHead(item, ":") = r.prot_id
        /\ ToInt(SplitHead(span, "-")) = r.start
        /\ ToInt(SplitRest(span, "-")) = r.stop

\* the record's derived fields are those of op
DescribesCluster(rec, op) ==
    /\ NamesMembers(rec, op)
    /\ \A i \in 1..Len(op) : ToInt(rec.operon_start) <= op[i].start
    /\ \E i \in 1..Len(op) : ToInt(rec.operon_start) = op[i].start
    /\ \A i \in 1..Len(op) : ToInt(rec.operon_end) >= op[i].stop
    /\ \E i \in 1..Len(op) : ToInt(rec.operon_end) = op[i].stop
    /\ ToInt(rec.operon_size) = Len(op)
    /\ LET items == SplitAll(rec.members_coords, ",")
       IN  /\ Len(items) = Len(op)
           /\ \A i \in 1..Len(op) : CoordItemIs(items[i], op[i])

\* the lines a step of main appends to the sink
NewLines == SubSeq(out_lines', Len(out_lines) + 1, Len(out_lines'))

\* a step of the loop body of main for the block in hand
BlockStep == pc = "yielded" /\ pc' # "yielded"

---------------------------------------------------------------------------
(* Properties *)

\* C1: in every cluster build_operons returns, consecutive members a, b satisfy
\* b.start - a.stop <= max_gap and, with require_same_strand, have equal strands.
C1_ClusterAdjacency ==
    built =>
      \A k \in 1..Len(operons) :
        \A i \in 1..(Len(operons[k]) - 1) :
          /\ operons[k][i + 1].start - operons[k][i].stop <= args.max_gap
          /\ (args.require_same_strand =>
                operons[k][i].strand = operons[k][i + 1].strand)

\* a cluster with a pair at exactly max_gap, under require_same_strand
C1_Witness ==
    /\ pc = "build"
    /\ built
    /\ args.require_same_strand
    /\ \E k \in 1..Len(operons) :
         \E i \in 1..(Len(operons[k]) - 1) :
           operons[k][i + 1].start - operons[k][i].stop = args.max_gap

\* C2: clusters are maximal: of two successive clusters on one contig, the first
\* member of the second fails the chaining condition after the last of the first.
C2_ClustersMaximal ==
    built =>
      \A k \in 1..(Len(operons) - 1) :
        LET a == operons[k][Len(operons[k])]
            b == operons[k + 1][1]
        IN  a.contig = b.contig => ~MayFollow(a, b)

\* a boundary made by the gap and a boundary made by the strand, on one contig
C2_Witness ==
    /\ pc = "build"
    /\ built
    /\ \E k \in 1..(Len(operons) - 1) :
         LET a == operons[k][Len(operons[k])]
             b == operons[k + 1][1]
         IN  a.contig = b.contig /\ b.start - a.stop > args.max_gap
    /\ \E k \in 1..(Len(operons) - 1) :
         LET a == operons[k][Len(operons[k])]
             b == operons[k + 1][1]
         IN  a.contig = b.contig /\ b.start - a.stop <= args.max_gap
                                 /\ a.strand # b.strand

\* C10: the clusters partition the block: each is non-empty and on one contig,
\* and their concatenation is the block's rows, each once, sorted by
\* (contig, start, stop).
C10_ClustersPartitionBlock ==
    built =>
      LET flat == Flatten(operons)
      IN  /\ \A k \in 1..Len(operons) :
               /\ operons[k] # <<>>
               /\ \A i \in 1..Len(operons[k]) :
                    operons[k][i].contig = operons[k][1].contig
          /\ IsPermutation(flat, rows)
          /\ \A i \in 1..(Len(flat) - 1) : ~KeyLess(flat[i + 1], flat[i])

\* a block given out of order that falls into several clusters, one with two members
C10_Witness ==
    /\ pc = "build"
    /\ built
    /\ Len(rows) = MaxRows
    /\ Flatten(operons) # rows
    /\ Len(operons) >= 2
    /\ \E k \in 1..Len(operons) : Len(operons[k]) >= 2

\* C3: a malformed row (fewer than 12 fields, or a non-integer in column 8 or 9)
\* is skipped: no error, the block being accumulated is kept, the loop goes on.
C3_MalformedRowSkipped ==
    [][(pc = "gen" /\ nread' = nread + 1 /\ Malformed(line')) =>
          /\ pc' = "gen"
          /\ err' = "none"
          /\ current' = current
          /\ current_key' = current_key
          /\ yielded' = yielded]_vars

\* C4: the rows of the yielded blocks, concatenated in yield order, are exactly
\* the parsed rows in line order, the last block included.
C4_YieldedRowsAreParsedRows ==
    GeneratorOver => YieldedRows = parsed

\* C5: the yielded blocks are exactly the maximal runs of equal q_full of the
\* valid rows.
C5_BlocksAreMaximalRuns ==
    GeneratorOver => yielded = Runs(parsed)

\* C6: for each block, one record is written for each cluster that holds the
\* query and another protein, in cluster order, and none for any other cluster.
C6_OneRecordPerQualifyingCluster ==
    [][(BlockStep /\ pc' # "error") =>
          LET Q == QualifyingIndexes(operons', rows[1].q_id)
          IN  /\ out_lines = SubSeq(out_lines', 1, Len(out_lines))
              /\ Len(NewLines) = Cardinality(Q)
              /\ \A j \in 1..Len(NewLines) :
                   NamesMembers(NewLines[j], operons'[NthOf(Q, j)])]_vars

\* a block whose query lies in qualifying clusters on two contigs: two records
C6_Witness ==
    /\ pc \in {"resume", "exhausted"}
    /\ built
    /\ \E k1, k2 \in QualifyingIndexes(operons, rows[1].q_id) :
         operons[k1][1].contig # operons[k2][1].contig
    /\ Len(out_lines) >= 3
    /\ out_lines[Len(out_lines)].kind = "data"
    /\ out_lines[Len(out_lines) - 1].kind = "data"
    /\ out_lines[Len(out_lines)].contig # out_lines[Len(out_lines) - 1].contig

\* C7: a named output file that main opened is closed on every exit path.
C7_NamedOutputClosedOnExit ==
    (pc \in {"done", "error"} /\ args.out_named /\ out # "unopened") =>
        out = "closed"

\* C8: when the input cannot be opened the output sink has been neither opened
\* nor written to.
C8_MissingInputNothingStarted ==
    err = "OSError: infile" => (out = "unopened" /\ out_lines = <<>>)

\* C9: every record written has operon_start the least start, operon_end the
\* greatest stop, operon_size the number of members, the contig of the first
\* member, and both member lists in cluster order.
C9_RecordDescribesCluster ==
    [][BlockStep =>
          LET Q == QualifyingIndexes(operons', rows[1].q_id)
          IN  \A j \in 1..Len(NewLines) :
                /\ j <= Cardinality(Q)
                /\ DescribesCluster(NewLines[j], operons'[NthOf(Q, j)])]_vars

\* a record whose operon_end is not the stop of the cluster's last member
C9_Witness ==
    /\ pc \in {"resume", "exhausted"}
    /\ built
    /\ out_lines[Len(out_lines)].kind = "data"
    /\ \E k \in QualifyingIndexes(operons, rows[1].q_id) :
         /\ DescribesCluster(out_lines[Len(out_lines)], operons[k])
         /\ ToInt(out_lines[Len(out_lines)].operon_end)
              # operons[k][Len(operons[k])].stop

===========================================================================
